---- MODULE Spec2Model ----
(***************************************************************************)
(* Model of kungpao/detection.py: kernel selection, background estimation  *)
(* and the sep_detection orchestrator around the external library sep.     *)
(*                                                                         *)
(* Real numbers are fixed point.  Tile and filter sizes are integers in    *)
(* tenths of a pixel (Tenth), kernel weights of the literal tables are in  *)
(* millionths (Micro), and the Gaussian formula is evaluated in units of   *)
(* 1/Unit.  The external primitives sep.Background and sep.extract are     *)
(* opaque: their outcome is a nondeterministic choice.                     *)
(***************************************************************************)
EXTENDS Integers, Sequences, FiniteSets, TLC

VARIABLES pc, op, args, img, imgAtCall, filter_kernel, bkg, threshold,
          results, calls, ret, gaussHist

vars == <<pc, op, args, img, imgAtCall, filter_kernel, bkg, threshold,
          results, calls, ret, gaussHist>>

\* ------------------------------------------------------------------------
\* Bounds of the model
\* ------------------------------------------------------------------------
MaxSize == 3
NPix == 2

\* ------------------------------------------------------------------------
\* Fixed-point scales and the None sentinel
\* ------------------------------------------------------------------------
Tenth == 10
Micro == 1000000
Unit == 10000
None == -1

\* ------------------------------------------------------------------------
\* Python values: exceptions and outcomes
\* ------------------------------------------------------------------------
NoKernel == [rows |-> 0, cols |-> 0, unit |-> 1, w |-> <<>>]

Ok(v) == [ok |-> TRUE, exc |-> "", val |-> v]

Raise(e) == [ok |-> FALSE, exc |-> e, val |-> NoKernel]

Matrix(u, m) == [rows |-> Len(m), cols |-> Len(m[1]), unit |-> u, w |-> m]

\* ------------------------------------------------------------------------
\* simple_convolution_kernel: the six literal tables
\* ------------------------------------------------------------------------
Tophat_3_3x3 ==
    << <<560000, 980000, 560000>>,
       <<980000, 1000000, 980000>>,
       <<560000, 980000, 560000>> >>

Topcat_4_5x5 ==
    << <<0, 220000, 480000, 220000, 0>>,
       <<220000, 990000, 1000000, 990000, 220000>>,
       <<480000, 1000000, 1000000, 1000000, 480000>>,
       <<220000, 990000, 1000000, 990000, 220000>>,
       <<0, 220000, 480000, 220000, 0>> >>

Topcat_5_5x5 ==
    << <<150000, 770000, 1000000, 770000, 150000>>,
       <<770000, 1000000, 1000000, 1000000, 770000>>,
       <<1000000, 1000000, 1000000, 1000000, 1000000>>,
       <<770000, 1000000, 1000000, 1000000, 770000>>,
       <<150000, 770000, 1000000, 770000, 150000>> >>

Gaussian_3_5x5 ==
    << <<92163, 221178, 296069, 221178, 92163>>,
       <<221178, 530797, 710525, 530797, 221178>>,
       <<296069, 710525, 951108, 710525, 296069>>,
       <<221178, 530797, 710525, 530797, 221178>>,
       <<92163, 221178, 296069, 221178, 92163>> >>

Gaussian_4_7x7 ==
    << <<47454, 109799, 181612, 214776, 181612, 109799, 47454>>,
       <<109799, 254053, 420215, 496950, 420215, 254053, 109799>>,
       <<181612, 420215, 695055, 821978, 695055, 420215, 181612>>,
       <<214776, 496950, 821978, 972079, 821978, 496950, 214776>>,
       <<181612, 420215, 695055, 821978, 695055, 420215, 181612>>,
       <<109799, 254053, 420215, 496950, 420215, 254053, 109799>>,
       <<47454, 109799, 181612, 214776, 181612, 109799, 47454>> >>

Gaussian_5_9x9 ==
    << <<30531, 65238, 112208, 155356, 173152, 155356, 112208, 65238, 30531>>,
       <<65238, 139399, 239763, 331961, 369987, 331961, 239763, 139399, 65238>>,
       <<112208, 239763, 412386, 570963, 636368, 570963, 412386, 239763, 112208>>,
       <<155356, 331961, 570963, 790520, 881075, 790520, 570963, 331961, 155356>>,
       <<173152, 369987, 636368, 881075, 982004, 881075, 636368, 369987, 173152>>,
       <<155356, 331961, 570963, 790520, 881075, 790520, 570963, 331961, 155356>>,
       <<112208, 239763, 412386, 570963, 636368, 570963, 412386, 239763, 112208>>,
       <<65238, 139399, 239763, 331961, 369987, 331961, 239763, 139399, 65238>>,
       <<30531, 65238, 112208, 155356, 173152, 155356, 112208, 65238, 30531>> >>

UnsupportedPreset == "### More options will be available in the future"

WrongKernelType == "Wrong choice for convolution kernel"

simple_convolution_kernel_accept0(kernel) ==
    IF kernel = 1 \/ kernel = 0 THEN Ok(Matrix(Micro, Tophat_3_3x3))
    ELSE IF kernel = 2 THEN Ok(Matrix(Micro, Topcat_4_5x5))
    ELSE IF kernel = 3 THEN Ok(Matrix(Micro, Topcat_5_5x5))
    ELSE IF kernel = 4 THEN Ok(Matrix(Micro, Gaussian_3_5x5))
    ELSE IF kernel = 5 THEN Ok(Matrix(Micro, Gaussian_4_7x7))
    ELSE IF kernel = 6 THEN Ok(Matrix(Micro, Gaussian_5_9x9))
    ELSE Raise(UnsupportedPreset)

simple_convolution_kernel(kernel) ==
    IF kernel = 1 THEN Ok(Matrix(Micro, Tophat_3_3x3))
    ELSE IF kernel = 2 THEN Ok(Matrix(Micro, Topcat_4_5x5))
    ELSE IF kernel = 3 THEN Ok(Matrix(Micro, Topcat_5_5x5))
    ELSE IF kernel = 4 THEN Ok(Matrix(Micro, Gaussian_3_5x5))
    ELSE IF kernel = 5 THEN Ok(Matrix(Micro, Gaussian_4_7x7))
    ELSE IF kernel = 6 THEN Ok(Matrix(Micro, Gaussian_5_9x9))
    ELSE Raise(UnsupportedPreset)

\* ------------------------------------------------------------------------
\* get_gaussian_kernel and the numpy / scipy functions it uses
\* ------------------------------------------------------------------------
\* np.linspace(start, stop, num): num evenly spaced samples, both ends kept
linspace(start, stop, num) ==
    [i \in 1..num |-> start + ((i - 1) * (stop - start)) \div (num - 1)]

\* st.norm.cdf tabulated every quarter unit on [0, 4], in 1/Unit
CdfTable ==
    <<5000, 5987, 6915, 7734, 8413, 8944, 9332, 9599, 9772,
      9878, 9938, 9970, 9987, 9994, 9998, 9999, 10000>>

CdfPos(x) ==
    LET step == Unit \div 4
        k == x \div step
    IN  IF k >= Len(CdfTable) - 1 THEN Unit
        ELSE CdfTable[k + 1]
             + ((CdfTable[k + 2] - CdfTable[k + 1]) * (x % step)) \div step

norm_cdf(x) == IF x < 0 THEN Unit - CdfPos(-x) ELSE CdfPos(x)

\* np.diff
diff(xs) == [i \in 1..(Len(xs) - 1) |-> xs[i + 1] - xs[i]]

\* np.outer
outer(a, b) == [i \in 1..Len(a) |-> [j \in 1..Len(b) |-> a[i] * b[j]]]

RECURSIVE isqrt(_, _, _)
isqrt(n, lo, hi) ==
    IF lo >= hi THEN lo
    ELSE LET mid == (lo + hi + 1) \div 2
         IN  IF mid * mid <= n THEN isqrt(n, mid, hi)
             ELSE isqrt(n, lo, mid - 1)

\* np.sqrt, elementwise
sqrt(m) == [i \in 1..Len(m) |-> [j \in 1..Len(m[i]) |-> isqrt(m[i][j], 0, Unit)]]

RECURSIVE SeqSum(_)
SeqSum(s) == IF Len(s) = 0 THEN 0 ELSE s[1] + SeqSum(Tail(s))

\* ndarray.sum() of a matrix
sum(m) == SeqSum([i \in 1..Len(m) |-> SeqSum(m[i])])

ZeroDivision == "ZeroDivisionError"

gaussian_weights(half, num, size) ==
    LET interval == ((2 * half + 1) * Unit) \div size
        x == linspace(-(half * Unit) - interval \div 2,
                      half * Unit + interval \div 2, num)
        kern1d == diff([i \in 1..Len(x) |-> norm_cdf(x[i])])
        kernel_raw == sqrt(outer(kern1d, kern1d))
        total == sum(kernel_raw)
    IN  [i \in 1..Len(kernel_raw) |->
           [j \in 1..Len(kernel_raw[i]) |-> (kernel_raw[i][j] * Unit) \div total]]

get_gaussian_kernel_nsig(size, sig) ==
    IF size = 0 THEN Raise(ZeroDivision)
    ELSE Ok(Matrix(Unit, gaussian_weights(sig, size + 1, size)))

get_gaussian_kernel_halfwidth(size, sig) ==
    IF size = 0 THEN Raise(ZeroDivision)
    ELSE Ok(Matrix(Unit, gaussian_weights(size, 2 * size + 2, size)))

get_gaussian_kernel(size, sig) ==
    IF size = 0 THEN Raise(ZeroDivision)
    ELSE Ok(Matrix(Unit, gaussian_weights(size, size + 1, size)))

\* ------------------------------------------------------------------------
\* Caller-owned arrays and the external library sep
\* ------------------------------------------------------------------------
Pixels == 1..NPix

Shapes == {<<100, 100>>, <<40, 40>>, <<52, 100>>}

Images == {[shape |-> s, data |-> [i \in Pixels |-> 100 + i]] : s \in Shapes}

NoMask == [isNone |-> TRUE, dtype |-> "", v |-> <<>>]

IntMask == [isNone |-> FALSE, dtype |-> "int", v |-> [i \in Pixels |-> 2 * (i % 2)]]

\* ndarray.astype(bool)
astype_bool(m) ==
    [isNone |-> FALSE, dtype |-> "bool",
     v |-> [i \in 1..Len(m.v) |-> IF m.v[i] = 0 THEN 0 ELSE 1]]

NoBkg == [set |-> FALSE, back |-> <<>>, globalrms |-> 0]

\* what sep.Background may do: fail, or build a model with a sky level per
\* pixel and a global rms
BackgroundOutcomes ==
    {[ok |-> FALSE, back |-> <<>>, globalrms |-> 0]}
    \cup {[ok |-> TRUE, back |-> [i \in Pixels |-> b + i], globalrms |-> r] :
            b \in {98, 99}, r \in {2, 3}}

\* what sep.extract may do: fail or succeed
ExtractOutcomes == BOOLEAN

BackgroundError == "sep.Background error"

ExtractError == "sep.extract error"

\* bkg.subfrom(img): in-place subtraction of the background from every pixel
subfrom(model, data) == [i \in 1..Len(data) |-> data[i] - model.back[i]]

\* ------------------------------------------------------------------------
\* sep_background
\* ------------------------------------------------------------------------
bkgsize_min_default == 10

sep_background_bh_axis1(image, mask, bw, bh, fw, fh, subtract, bkgsize_min, ext) ==
    LET bw0 == (image.shape[1] * Tenth) \div 5
        bw1 == IF bw = None
               THEN (IF bw0 >= bkgsize_min THEN bw0 ELSE bkgsize_min) ELSE bw
        bh0 == (image.shape[2] * Tenth) \div 5
        bh1 == IF bh = None
               THEN (IF bh0 >= bkgsize_min THEN bh0 ELSE bkgsize_min) ELSE bh
        fw1 == IF fw = None THEN bw1 \div 2 ELSE fw
        fh1 == IF fh = None THEN bh1 \div 2 ELSE fh
        mask1 == IF mask.isNone THEN mask ELSE astype_bool(mask)
        call == [op |-> "Background", img |-> image.data, mask |-> mask1,
                 bw |-> bw1, bh |-> bh1, fw |-> fw1, fh |-> fh1]
        model == [set |-> TRUE, back |-> ext.back, globalrms |-> ext.globalrms]
    IN  IF ~ext.ok
        THEN [raised |-> TRUE, exc |-> BackgroundError, data |-> image.data,
              bkg |-> NoBkg, tuple |-> FALSE, val |-> <<>>, calls |-> <<call>>]
        ELSE IF subtract
        THEN [raised |-> FALSE, exc |-> "", data |-> subfrom(model, image.data),
              bkg |-> model, tuple |-> TRUE, val |-> <<"bkg", "img">>,
              calls |-> <<call, [op |-> "subfrom"]>>]
        ELSE [raised |-> FALSE, exc |-> "", data |-> image.data,
              bkg |-> model, tuple |-> FALSE, val |-> <<"bkg">>,
              calls |-> <<call>>]

sep_background_always_subtract(image, mask, bw, bh, fw, fh, subtract, bkgsize_min, ext) ==
    LET bw0 == (image.shape[1] * Tenth) \div 5
        bw1 == IF bw = None
               THEN (IF bw0 >= bkgsize_min THEN bw0 ELSE bkgsize_min) ELSE bw
        bh0 == (image.shape[1] * Tenth) \div 5
        bh1 == IF bh = None
               THEN (IF bh0 >= bkgsize_min THEN bh0 ELSE bkgsize_min) ELSE bh
        fw1 == IF fw = None THEN bw1 \div 2 ELSE fw
        fh1 == IF fh = None THEN bh1 \div 2 ELSE fh
        mask1 == IF mask.isNone THEN mask ELSE astype_bool(mask)
        call == [op |-> "Background", img |-> image.data, mask |-> mask1,
                 bw |-> bw1, bh |-> bh1, fw |-> fw1, fh |-> fh1]
        model == [set |-> TRUE, back |-> ext.back, globalrms |-> ext.globalrms]
    IN  IF ~ext.ok
        THEN [raised |-> TRUE, exc |-> BackgroundError, data |-> image.data,
              bkg |-> NoBkg, tuple |-> FALSE, val |-> <<>>, calls |-> <<call>>]
        ELSE IF subtract
        THEN [raised |-> FALSE, exc |-> "", data |-> subfrom(model, image.data),
              bkg |-> model, tuple |-> TRUE, val |-> <<"bkg", "img">>,
              calls |-> <<call, [op |-> "subfrom"]>>]
        ELSE [raised |-> FALSE, exc |-> "", data |-> subfrom(model, image.data),
              bkg |-> model, tuple |-> FALSE, val |-> <<"bkg">>,
              calls |-> <<call, [op |-> "subfrom"]>>]

sep_background(image, mask, bw, bh, fw, fh, subtract, bkgsize_min, ext) ==
    LET bw0 == (image.shape[1] * Tenth) \div 5
        bw1 == IF bw = None
               THEN (IF bw0 >= bkgsize_min THEN bw0 ELSE bkgsize_min) ELSE bw
        bh0 == (image.shape[1] * Tenth) \div 5
        bh1 == IF bh = None
               THEN (IF bh0 >= bkgsize_min THEN bh0 ELSE bkgsize_min) ELSE bh
        fw1 == IF fw = None THEN bw1 \div 2 ELSE fw
        fh1 == IF fh = None THEN bh1 \div 2 ELSE fh
        mask1 == IF mask.isNone THEN mask ELSE astype_bool(mask)
        call == [op |-> "Background", img |-> image.data, mask |-> mask1,
                 bw |-> bw1, bh |-> bh1, fw |-> fw1, fh |-> fh1]
        model == [set |-> TRUE, back |-> ext.back, globalrms |-> ext.globalrms]
    IN  IF ~ext.ok
        THEN [raised |-> TRUE, exc |-> BackgroundError, data |-> image.data,
              bkg |-> NoBkg, tuple |-> FALSE, val |-> <<>>, calls |-> <<call>>]
        ELSE IF subtract
        THEN [raised |-> FALSE, exc |-> "", data |-> subfrom(model, image.data),
              bkg |-> model, tuple |-> TRUE, val |-> <<"bkg", "img">>,
              calls |-> <<call, [op |-> "subfrom"]>>]
        ELSE [raised |-> FALSE, exc |-> "", data |-> image.data,
              bkg |-> model, tuple |-> FALSE, val |-> <<"bkg">>,
              calls |-> <<call>>]

\* ------------------------------------------------------------------------
\* Arguments the caller may pass
\* ------------------------------------------------------------------------
IntKernel(k) == [type |-> "int", a |-> k, b |-> 0]

SeqKernel(size, sig) == [type |-> "seq", a |-> size, b |-> sig]

OtherKernel(t) == [type |-> t, a |-> 0, b |-> 0]

Sigs == {1, 2}

KernelArgs ==
    {IntKernel(k) : k \in 0..7}
    \cup {SeqKernel(s, g) : s \in 0..MaxSize, g \in Sigs}
    \cup {OtherKernel("str"), OtherKernel("float")}

SizeArg(v) == {None, v * Tenth}

BkgDefaults ==
    [isNone |-> TRUE, mask |-> NoMask, bw |-> None, bh |-> None,
     fw |-> None, fh |-> None, bkgsize_min |-> bkgsize_min_default * Tenth]

\* the docstring's example of bkg_kwargs
BkgKwargsExample ==
    [isNone |-> FALSE, mask |-> NoMask, bw |-> 100 * Tenth, bh |-> 100 * Tenth,
     fw |-> 100 * Tenth, fh |-> 100 * Tenth,
     bkgsize_min |-> bkgsize_min_default * Tenth]

DetArgs ==
    [threshold : {3, 5}, kernel : KernelArgs, err : {"None", "errmap"},
     use_sig : BOOLEAN, subtract_bkg : {"unset", "True", "False"},
     return_bkg : BOOLEAN, return_seg : BOOLEAN,
     bkg_kwargs : {BkgDefaults, BkgKwargsExample}]

BkgArgs ==
    [mask : {NoMask, IntMask}, bw : SizeArg(64), bh : SizeArg(32),
     fw : SizeArg(16), fh : SizeArg(8), subtract : BOOLEAN,
     bkgsize_min : {bkgsize_min_default * Tenth, 15 * Tenth}]

NoArgs == [none |-> TRUE]

NoRet == [kind |-> "pending", tuple |-> FALSE, val |-> <<>>, exc |-> ""]

RetNone == [kind |-> "None", tuple |-> FALSE, val |-> <<>>, exc |-> ""]

RetValue(v) == [kind |-> "value", tuple |-> FALSE, val |-> <<v>>, exc |-> ""]

RetTuple(t) == [kind |-> "value", tuple |-> TRUE, val |-> t, exc |-> ""]

RetRaise(e) == [kind |-> "raise", tuple |-> FALSE, val |-> <<>>, exc |-> e]

NoResults == [set |-> FALSE, tuple |-> FALSE, val |-> <<>>]

Absent == "<absent>"

\* the last Gaussian evaluation, then the new one
Remember(size, sig, k) ==
    (IF Len(gaussHist) = 0 THEN <<>> ELSE <<gaussHist[Len(gaussHist)]>>)
    \o <<[size |-> size, sig |-> sig, kernel |-> k]>>

\* ------------------------------------------------------------------------
\* Initial state: no call is running
\* ------------------------------------------------------------------------
Init ==
    /\ pc = "idle"
    /\ op = "none"
    /\ args = NoArgs
    /\ img \in Images
    /\ imgAtCall = img.data
    /\ filter_kernel = NoKernel
    /\ bkg = NoBkg
    /\ threshold = 0
    /\ results = NoResults
    /\ calls = <<>>
    /\ ret = NoRet
    /\ gaussHist = <<>>

\* a call starts: fresh frame, the image is the array the caller passes
Enter(name, a, image) ==
    /\ pc = "idle"
    /\ op' = name
    /\ args' = a
    /\ imgAtCall' = image.data

\* ------------------------------------------------------------------------
\* Direct calls of the three leaf functions
\* ------------------------------------------------------------------------
CallSimpleConvolutionKernel(kernel) ==
    LET r == simple_convolution_kernel(kernel)
    IN  /\ Enter("simple_convolution_kernel", IntKernel(kernel), img)
        /\ filter_kernel' = r.val
        /\ ret' = IF r.ok THEN RetValue("convKer") ELSE RetRaise(r.exc)
        /\ pc' = "returned"
        /\ UNCHANGED <<img, calls, bkg, threshold, results, gaussHist>>

CallGetGaussianKernel(size, sig) ==
    LET r == get_gaussian_kernel(size, sig)
    IN  /\ Enter("get_gaussian_kernel", SeqKernel(size, sig), img)
        /\ filter_kernel' = r.val
        /\ ret' = IF r.ok THEN RetValue("kernel") ELSE RetRaise(r.exc)
        /\ gaussHist' = IF r.ok THEN Remember(size, sig, r.val) ELSE gaussHist
        /\ pc' = "returned"
        /\ UNCHANGED <<img, calls, bkg, threshold, results>>

CallSepBackground(a, image, ext) ==
    LET r == sep_background(image, a.mask, a.bw, a.bh, a.fw, a.fh,
                            a.subtract, a.bkgsize_min, ext)
    IN  /\ Enter("sep_background", a, image)
        /\ img' = [image EXCEPT !.data = r.data]
        /\ calls' = r.calls
        /\ bkg' = r.bkg
        /\ ret' = IF r.raised THEN RetRaise(r.exc)
                  ELSE IF r.tuple THEN RetTuple(r.val) ELSE RetValue(r.val[1])
        /\ pc' = "returned"
        /\ UNCHANGED <<filter_kernel, threshold, results, gaussHist>>

\* ------------------------------------------------------------------------
\* sep_detection, step by step
\* ------------------------------------------------------------------------
CallSepDetection(a, image) ==
    /\ Enter("sep_detection", a, image)
    /\ img' = image
    /\ calls' = <<>>
    /\ threshold' = a.threshold
    /\ filter_kernel' = NoKernel
    /\ bkg' = NoBkg
    /\ results' = NoResults
    /\ ret' = NoRet
    /\ pc' = "kernel"
    /\ UNCHANGED gaussHist

\* the default of the keyword subtract_bkg applies when it is not passed
subtract_bkg_default == TRUE

SubtractBkg_ignore_flag(a) == subtract_bkg_default

SubtractBkg(a) ==
    IF a.subtract_bkg = "unset" THEN subtract_bkg_default
    ELSE a.subtract_bkg = "True"

resolve_kernel(kernel) ==
    IF kernel.type = "int" THEN simple_convolution_kernel(kernel.a)
    ELSE IF kernel.type = "seq" THEN get_gaussian_kernel(kernel.a, kernel.b)
    ELSE Raise(WrongKernelType)

DetResolveKernel_fallback ==
    LET r == resolve_kernel(args.kernel)
    IN  /\ pc = "kernel"
        /\ filter_kernel' = IF r.ok THEN r.val ELSE Matrix(Micro, Gaussian_3_5x5)
        /\ gaussHist' = IF r.ok /\ args.kernel.type = "seq"
                        THEN Remember(args.kernel.a, args.kernel.b, r.val)
                        ELSE gaussHist
        /\ pc' = "background"
        /\ UNCHANGED <<op, args, img, imgAtCall, bkg, threshold, results, calls,
                       ret>>

DetResolveKernel ==
    LET r == resolve_kernel(args.kernel)
    IN  /\ pc = "kernel"
        /\ filter_kernel' = r.val
        /\ gaussHist' = IF r.ok /\ args.kernel.type = "seq"
                        THEN Remember(args.kernel.a, args.kernel.b, r.val)
                        ELSE gaussHist
        /\ IF r.ok
           THEN pc' = "background" /\ ret' = ret
           ELSE pc' = "returned" /\ ret' = RetRaise(r.exc)
        /\ UNCHANGED <<op, args, img, imgAtCall, bkg, threshold, results, calls>>

DetBackground(ext) ==
    LET kw == args.bkg_kwargs
        r == sep_background(img, kw.mask, kw.bw, kw.bh, kw.fw, kw.fh,
                            SubtractBkg(args), kw.bkgsize_min, ext)
    IN  /\ pc = "background"
        /\ calls' = calls \o r.calls
        /\ img' = [img EXCEPT !.data = r.data]
        /\ bkg' = r.bkg
        /\ IF r.raised
           THEN pc' = "returned" /\ ret' = RetRaise(r.exc)
           ELSE pc' = "extract" /\ ret' = ret
        /\ UNCHANGED <<op, args, imgAtCall, filter_kernel, threshold, results,
                       gaussHist>>

\* the threshold handed to sep.extract
detection_threshold_always_rms(thr, err, model) == thr * model.globalrms

detection_threshold(thr, err, model) ==
    IF err = "None" THEN thr * model.globalrms ELSE thr

\* the keyword under which the err array is handed to sep.extract
extract_keywords_always_err(use_sig, err) == [err |-> err, var |-> Absent]

extract_keywords(use_sig, err) ==
    IF use_sig THEN [err |-> err, var |-> Absent]
    ELSE [err |-> Absent, var |-> err]

DetExtract(ok) ==
    LET thr == detection_threshold(threshold, args.err, bkg)
        kw == extract_keywords(args.use_sig, args.err)
        call == [op |-> "extract", img |-> img.data, thresh |-> thr,
                 err |-> kw.err, var |-> kw.var,
                 filter_kernel |-> filter_kernel,
                 segmentation_map |-> args.return_seg]
    IN  /\ pc = "extract"
        /\ threshold' = thr
        /\ calls' = Append(calls, call)
        /\ IF ok
           THEN /\ results' = IF args.return_seg
                              THEN [set |-> TRUE, tuple |-> TRUE,
                                    val |-> <<"objects", "segmap">>]
                              ELSE [set |-> TRUE, tuple |-> FALSE,
                                    val |-> <<"objects">>]
                /\ pc' = "return"
                /\ ret' = ret
           ELSE /\ results' = results
                /\ pc' = "returned"
                /\ ret' = RetRaise(ExtractError)
        /\ UNCHANGED <<op, args, img, imgAtCall, filter_kernel, bkg, gaussHist>>

DetReturn ==
    /\ pc = "return"
    /\ ret' = IF args.return_seg
              THEN (IF args.return_bkg
                    THEN RetTuple(<<results.val[1], results.val[2], "bkg">>)
                    ELSE RetNone)
              ELSE (IF args.return_bkg
                    THEN RetTuple(<<IF results.tuple THEN "results"
                                    ELSE results.val[1], "bkg">>)
                    ELSE RetNone)
    /\ pc' = "returned"
    /\ UNCHANGED <<op, args, img, imgAtCall, filter_kernel, bkg, threshold,
                   results, calls, gaussHist>>

\* the caller takes the result; the frame of the call is gone
Resume ==
    /\ pc = "returned"
    /\ pc' = "idle"
    /\ op' = "none"
    /\ args' = NoArgs
    /\ imgAtCall' = img.data
    /\ filter_kernel' = NoKernel
    /\ bkg' = NoBkg
    /\ threshold' = 0
    /\ results' = NoResults
    /\ calls' = <<>>
    /\ ret' = NoRet
    /\ gaussHist' = IF Len(gaussHist) = 0 THEN <<>>
                    ELSE <<gaussHist[Len(gaussHist)]>>
    /\ UNCHANGED img

Idle == pc = "idle"

Next ==
    \/ Idle /\ \E k \in 0..7 : CallSimpleConvolutionKernel(k)
    \/ Idle /\ \E s \in 0..MaxSize, g \in Sigs : CallGetGaussianKernel(s, g)
    \/ Idle /\ \E a \in BkgArgs, i \in Images, e \in BackgroundOutcomes :
                  CallSepBackground(a, i, e)
    \/ Idle /\ \E a \in DetArgs, i \in Images : CallSepDetection(a, i)
    \/ DetResolveKernel
    \/ \E e \in BackgroundOutcomes : DetBackground(e)
    \/ \E ok \in ExtractOutcomes : DetExtract(ok)
    \/ DetReturn
    \/ Resume

Spec == Init /\ [][Next]_vars

\* ------------------------------------------------------------------------
\* Properties
\* ------------------------------------------------------------------------
InDetection == op = "sep_detection"

DetectionReturned == InDetection /\ pc = "returned"

Succeeded == ret.kind \in {"value", "None"}

CallsTo(name) == SelectSeq(calls, LAMBDA c : c.op = name)

Called(name) == Len(CallsTo(name)) > 0

KernelErrors == {UnsupportedPreset, WrongKernelType, ZeroDivision}

\* the kernel argument of the running call, where it has one
KernelArg == IF InDetection THEN args.kernel ELSE args

KernelResolved ==
    \/ InDetection /\ pc # "kernel"
    \/ op \in {"simple_convolution_kernel", "get_gaussian_kernel"}

Raised(e) == ret.kind = "raise" /\ ret.exc = e

NoKernelError == ~(ret.kind = "raise" /\ ret.exc \in KernelErrors)

PresetTable(k) ==
    CASE k = 1 -> Tophat_3_3x3
      [] k = 2 -> Topcat_4_5x5
      [] k = 3 -> Topcat_5_5x5
      [] k = 4 -> Gaussian_3_5x5
      [] k = 5 -> Gaussian_4_7x7
      [] k = 6 -> Gaussian_5_9x9

\* C1 (as stated): a successful sep_detection call returns
\* (objects, segmap, bkg) for return_seg and return_bkg, (objects, segmap)
\* for return_seg alone, (extraction result, bkg) for return_bkg alone, and
\* None only when both flags are false.
C1_ReturnShape ==
    (DetectionReturned /\ Succeeded) =>
        IF args.return_seg
        THEN (IF args.return_bkg
              THEN ret = RetTuple(<<"objects", "segmap", "bkg">>)
              ELSE ret = RetTuple(<<"objects", "segmap">>))
        ELSE (IF args.return_bkg
              THEN ret = RetTuple(<<"objects", "bkg">>)
              ELSE ret = RetNone)

\* C2 (as stated): get_gaussian_kernel(size, sigma) with size >= 1 returns a
\* matrix of shape (2*size+1, 2*size+1).
C2_ShapeTwoSizePlusOne ==
    \A i \in DOMAIN gaussHist :
        /\ gaussHist[i].kernel.rows = 2 * gaussHist[i].size + 1
        /\ gaussHist[i].kernel.cols = 2 * gaussHist[i].size + 1

\* C2 (amended): get_gaussian_kernel(size, sigma) with size >= 1 returns a
\* square matrix of shape (size, size); it is odd-sized exactly when size is
\* odd.
C2_ShapeIsSize ==
    \A i \in DOMAIN gaussHist :
        LET k == gaussHist[i].kernel
            n == gaussHist[i].size
        IN  /\ k.rows = n
            /\ k.cols = n
            /\ Len(k.w) = n
            /\ \A r \in 1..Len(k.w) : Len(k.w[r]) = n
            /\ (k.rows % 2 = 1) <=> (n % 2 = 1)

C2_Witness ==
    /\ op = "get_gaussian_kernel"
    /\ pc = "returned"
    /\ Succeeded
    /\ args.a = 2
    /\ filter_kernel.rows = 2

\* the size arguments sep_background receives in the running call
BkgCallArgs == IF InDetection THEN args.bkg_kwargs ELSE args

BackgroundCalled ==
    /\ op \in {"sep_background", "sep_detection"}
    /\ Called("Background")

SizesOmitted ==
    /\ BkgCallArgs.bw = None
    /\ BkgCallArgs.bh = None
    /\ BkgCallArgs.fw = None
    /\ BkgCallArgs.fh = None

\* tenths of a pixel of max(n / 5, m), m given in tenths
FifthOrMin(n, m) == IF 2 * n >= m THEN 2 * n ELSE m

\* C3: without bw, bh, fw and fh, sep.Background receives
\* bw = bh = max(image.shape[0] / 5, bkgsize_min), both from the first axis,
\* and fw = bw / 2, fh = bh / 2; 100x100 gives 20 and 10, and 40x40 with
\* bkgsize_min = 10 gives bw = bh = 10.
C3_DefaultSizes ==
    (BackgroundCalled /\ SizesOmitted) =>
        LET c == CallsTo("Background")[1]
            m == BkgCallArgs.bkgsize_min
        IN  /\ c.bw = FifthOrMin(img.shape[1], m)
            /\ c.bh = c.bw
            /\ 2 * c.fw = c.bw
            /\ 2 * c.fh = c.bh
            /\ (img.shape = <<100, 100>> /\ m <= 200) =>
                   (c.bw = 200 /\ c.bh = 200 /\ c.fw = 100 /\ c.fh = 100)
            /\ (img.shape = <<40, 40>> /\ m = 100) =>
                   (c.bw = 100 /\ c.bh = 100)

C3_Witness ==
    /\ op = "sep_background"
    /\ pc = "returned"
    /\ Succeeded
    /\ SizesOmitted
    /\ img.shape = <<52, 100>>
    /\ CallsTo("Background")[1].bh = 104

BackgroundReturned == op = "sep_background" /\ pc = "returned" /\ Succeeded

\* C4: sep_background changes the image only with subtract=True: then the
\* background is subtracted in place exactly once and (bkg, img) is
\* returned; with subtract=False the image is unchanged and bkg alone is
\* returned.
C4_SubtractInPlace ==
    BackgroundReturned =>
        IF args.subtract
        THEN /\ img.data = [i \in Pixels |-> imgAtCall[i] - bkg.back[i]]
             /\ Len(CallsTo("subfrom")) = 1
             /\ ret = RetTuple(<<"bkg", "img">>)
        ELSE /\ img.data = imgAtCall
             /\ Len(CallsTo("subfrom")) = 0
             /\ ret = RetValue("bkg")

C4_Witness ==
    /\ BackgroundReturned
    /\ args.subtract
    /\ img.data # imgAtCall
    /\ ret.tuple

\* C5 (as stated): a sep_detection call in which subtract_bkg is not passed,
\* or is passed as False, leaves the image unchanged.
C5_UnchangedUnlessRequested ==
    (InDetection /\ args.subtract_bkg \in {"unset", "False"}) =>
        img.data = imgAtCall

\* C5 (amended): a sep_detection call in which subtract_bkg is passed as
\* False leaves the image unchanged; when subtract_bkg is not passed its
\* default True applies and the background is subtracted in place.
C5_UnchangedWhenFalse ==
    InDetection =>
        /\ args.subtract_bkg = "False" =>
               (img.data = imgAtCall /\ ~Called("subfrom"))
        /\ (args.subtract_bkg = "unset" /\ bkg.set) =>
               /\ img.data = [i \in Pixels |-> imgAtCall[i] - bkg.back[i]]
               /\ Called("subfrom")

C5_Witness ==
    /\ DetectionReturned
    /\ Succeeded
    /\ args.subtract_bkg = "False"
    /\ Called("Background")
    /\ Called("extract")
    /\ img.data = imgAtCall

ExtractCalled == InDetection /\ Called("extract")

\* C6: the threshold handed to sep.extract is threshold * bkg.globalrms when
\* err is None and the caller's threshold when err is supplied, whatever
\* subtract_bkg and use_sig are.
C6_Threshold ==
    ExtractCalled =>
        LET c == CallsTo("extract")[1]
        IN  IF args.err = "None"
            THEN c.thresh = args.threshold * bkg.globalrms
            ELSE c.thresh = args.threshold

C6_Witness ==
    /\ ExtractCalled
    /\ args.err = "errmap"
    /\ ~args.use_sig
    /\ args.subtract_bkg = "False"
    /\ CallsTo("extract")[1].thresh = args.threshold
    /\ bkg.globalrms > 1

\* C7: the err array goes to sep.extract under exactly one keyword: err=
\* when use_sig is True, var= when use_sig is False; the other keyword is
\* not passed.
C7_ErrOrVar ==
    ExtractCalled =>
        LET c == CallsTo("extract")[1]
        IN  IF args.use_sig
            THEN c.err = args.err /\ c.var = Absent
            ELSE c.var = args.err /\ c.err = Absent

C7_Witness ==
    /\ ExtractCalled
    /\ ~args.use_sig
    /\ args.err = "errmap"
    /\ CallsTo("extract")[1].var = "errmap"

Rank(name) ==
    CASE name = "Background" -> 1
      [] name = "subfrom" -> 2
      [] name = "extract" -> 3

InvalidKernel(k) ==
    \/ k.type = "int" /\ k.a \notin 1..6
    \/ k.type \notin {"int", "seq"}
    \/ k.type = "seq" /\ k.a = 0

\* C9: a sep_detection call resolves the kernel, then estimates the
\* background (with optional subtraction), then extracts, each at most once;
\* a failure ends the call and no later step runs: an invalid kernel
\* argument causes no external call and no mutation, a background failure
\* causes no extraction.
C9_StepOrder ==
    InDetection =>
        /\ \A i, j \in DOMAIN calls :
               i < j => Rank(calls[i].op) < Rank(calls[j].op)
        /\ Called("Background") => filter_kernel # NoKernel
        /\ Called("extract") => (Called("Background") /\ bkg.set)
        /\ InvalidKernel(args.kernel) =>
               (calls = <<>> /\ img.data = imgAtCall /\ pc \in {"kernel", "returned"})
        /\ ret.kind = "raise" => pc = "returned"
        /\ Raised(BackgroundError) =>
               (~Called("extract") /\ ~Called("subfrom") /\ img.data = imgAtCall)
        /\ pc = "background" => calls = <<>>
        /\ pc = "extract" => ~Called("extract")

C9_Witness ==
    /\ DetectionReturned
    /\ Raised(BackgroundError)
    /\ filter_kernel # NoKernel
    /\ Len(calls) = 1

\* C10: the result of get_gaussian_kernel(size, sig) does not depend on
\* sig: two evaluations with the same size give the same kernel, and it is
\* the kernel sep_detection hands to sep.extract for a (size, sigma) pair.
C10_SigmaIgnored ==
    /\ \A i, j \in DOMAIN gaussHist :
           gaussHist[i].size = gaussHist[j].size =>
               gaussHist[i].kernel = gaussHist[j].kernel
    /\ (ExtractCalled /\ args.kernel.type = "seq") =>
           \A i \in DOMAIN gaussHist :
               gaussHist[i].size = args.kernel.a =>
                   CallsTo("extract")[1].filter_kernel = gaussHist[i].kernel

C10_Witness ==
    /\ ExtractCalled
    /\ args.kernel.type = "seq"
    /\ Len(gaussHist) = 2
    /\ gaussHist[1].size = 3
    /\ gaussHist[2].size = 3
    /\ gaussHist[1].sig # gaussHist[2].sig
    /\ CallsTo("extract")[1].filter_kernel = gaussHist[1].kernel

====
